---- MODULE Spec2Model ----
(***************************************************************************)
(* A model of the relightable Gaussian codec avatar (ca_body/models/rgca.py)*)
(* and of its test driver (ca_code/scripts/run_test.py).                    *)
(*                                                                          *)
(* Tensors are modelled by one element per batch entry: one Gaussian, one   *)
(* pixel, one latent dimension. Real numbers are fixed-point integers in    *)
(* hundredths (1.0 is 100); products and quotients round towards minus      *)
(* infinity. A batch is a sequence indexed 1..B (the code's 0..B-1).        *)
(* Python's None is the empty sequence << >>.                               *)
(***************************************************************************)
EXTENDS Integers, Sequences, FiniteSets, TLC

VARIABLES
    W,                   \* the learned parameters of the model (all layers)
    training,            \* nn.Module.training of the AutoEncoder
    cal_enabled,         \* AutoEncoder.cal_enabled
    learn_blur_enabled,  \* AutoEncoder.learn_blur_enabled
    pc,                  \* position inside AutoEncoder.forward
    args,                \* the arguments of the running forward call
    loc,                 \* forward's local variables
    preds,               \* forward's preds dict
    log,                 \* the stages the running call has executed, in order
    rs,                  \* AutoEncoder.render's locals (loop index, lists, calls)
    cfg,                 \* the model configuration (n_diff_sh, n_color_sh)
    ext,                 \* what the opaque primitives and the random generator yield
    prim,                \* a direct call of one component: its inputs and result
    enc,                 \* the last two calls of Encoder.forward
    drv                  \* run_test.main: its position and what it has built

modelVars == <<W, training, cal_enabled, learn_blur_enabled, cfg>>
fwdVars == <<pc, args, loc, preds, log, rs>>
vars == <<W, training, cal_enabled, learn_blur_enabled, pc, args, loc, preds, log, rs,
          cfg, ext, prim, enc, drv>>

----------------------------------------------------------------------------
(* Bounds of the model. *)

\* the largest batch size a caller passes
MaxB == 2
\* the learned parameters range over 0..MaxW
MaxW == 4
\* the number of light slots per sample
MaxLights == 2
\* the number of frames of a dataset
NFrames == 6
\* the opaque primitives' outcomes are indexed 0..MaxExt
MaxExt == 5
\* the largest spherical-harmonics degree a configuration uses
MaxSh == 2

----------------------------------------------------------------------------
(* Fixed-point arithmetic. *)

One == 10 * 10

None == << >>

\* an empty dict, and dict.update: g's entries over f's
Empty == [k \in {} |-> 0]

Merge(f, g) ==
    [k \in (DOMAIN f) \cup (DOMAIN g) |-> IF k \in DOMAIN g THEN g[k] ELSE f[k]]

\* F(v), with v evaluated once
Bind(v, F(_)) == CHOOSE r \in {F(x) : x \in {v}} : TRUE

Mul(a, b) == (a * b) \div One

Div(a, b) == (a * One) \div b

Max2(a, b) == IF a >= b THEN a ELSE b

Min2(a, b) == IF a <= b THEN a ELSE b

\* Tensor.clamp(min=lo, max=hi)
Clamp(x, lo, hi) == Min2(Max2(x, lo), hi)

\* Tensor.clamp(min=lo)
ClampMin(x, lo) == Max2(x, lo)

\* Tensor.clamp(max=hi)
ClampMax(x, hi) == Min2(x, hi)

RECURSIVE ExpInt(_)
\* e^n in hundredths for a whole n; underflows to 0 and saturates like a float
ExpInt(n) ==
    IF n = 0 THEN One
    ELSE IF n > 0 THEN (IF n > 8 THEN ExpInt(8) ELSE (ExpInt(n - 1) * 272) \div One)
    ELSE (IF n < -6 THEN 0 ELSE (ExpInt(n + 1) * One) \div 272)

\* th.exp on a fixed-point argument: e^whole * (1 + f + f^2/2) for the fraction f
Exp(x) ==
    LET whole == x \div One
        frac == x % One
    IN  (ExpInt(whole) * (One + frac + (frac * frac) \div (2 * One))) \div One

\* th.sigmoid: 1 / (1 + e^-x)
Sigmoid(x) == (One * One) \div (One + Exp(0 - x))

\* F.softplus (beta=1, threshold=20): log(1 + e^x), x itself above the threshold
Softplus(x) ==
    LET k == x \div One
    IN  IF x > 20 * One THEN x
        ELSE IF k >= 6 THEN x
        ELSE IF k <= -6 THEN 0
        ELSE CASE k = -5 -> 1 [] k = -4 -> 2 [] k = -3 -> 5 [] k = -2 -> 13
               [] k = -1 -> 31 [] k = 0 -> 69 [] k = 1 -> 131 [] k = 2 -> 213
               [] k = 3 -> 305 [] k = 4 -> 402 [] k = 5 -> 501

RECURSIVE SqrtIn(_, _, _)
\* the largest k in lo..hi with k * k <= n, by bisection
SqrtIn(n, lo, hi) ==
    IF lo >= hi THEN lo
    ELSE LET mid == (lo + hi + 1) \div 2
         IN  IF mid * mid <= n THEN SqrtIn(n, mid, hi) ELSE SqrtIn(n, lo, mid - 1)

\* integer square root
ISqrt(n) == SqrtIn(n, 0, 46340)

Dot3(u, v) == u[1] * v[1] + u[2] * v[2] + u[3] * v[3]

Dot4(u, v) == u[1] * v[1] + u[2] * v[2] + u[3] * v[3] + u[4] * v[4]

\* F.normalize(v, p=2): v / max(||v||, eps), here of integer vectors, in hundredths
Normalize(v) ==
    Bind(v, LAMBDA u :
    Bind(Dot3(u, u), LAMBDA d :
        IF d = 0 THEN <<0, 0, 0>>
        ELSE IF d < 1000 * One
        THEN Bind(ISqrt(d * One * One), LAMBDA n : [i \in 1..3 |-> (u[i] * One * One) \div n])
        ELSE Bind(ISqrt(d), LAMBDA n : [i \in 1..3 |-> (u[i] * One) \div n])))

----------------------------------------------------------------------------
(* Linear algebra on integer matrices: a matrix is a sequence of rows. *)

Col(M, j) == [i \in 1..Len(M) |-> M[i][j]]

\* A @ B for B with four rows
MatMul4(A, B) ==
    Bind(<<A, B>>, LAMBDA p :
        [i \in 1..Len(p[1]) |-> [j \in 1..Len(p[2][1]) |-> Dot4(p[1][i], Col(p[2], j))]])

\* the 3x3 matrix R times the column vector v
MatTimes3(v, R) == [i \in 1..3 |-> Dot3(R[i], v)]

\* the row vector v times the 3x3 matrix R
RowTimes3(v, R) == [j \in 1..3 |-> Dot3(v, Col(R, j))]

VecSub(u, v) == [i \in 1..3 |-> u[i] - v[i]]

\* head_pose[:, :3, :3]
RotOf(hp) == [i \in 1..3 |-> [j \in 1..3 |-> hp[i][j]]]

\* head_pose[:, :3, 3]
TransOf(hp) == [i \in 1..3 |-> hp[i][4]]

----------------------------------------------------------------------------
(* The assets and the inputs: a dataset of frames, batched in order. *)

\* static assets of the capture: statistics of the registered geometry
Assets == [verts_std |-> 2 * One, verts_mean |-> <<10, -20, 30>>,
           albedo |-> <<80, 60, 40>>]

\* AutoEncoder.__init__ defaults of the Encoder
noise_std == 100
mean_scale == 10
logvar_scale == 1

\* rigid head poses [R|t]: the identity, and a quarter turn about z with a shift
HeadPoses == << << <<1, 0, 0, 0>>, <<0, 1, 0, 0>>, <<0, 0, 1, 0>> >>,
                << <<0, -1, 0, 1>>, <<1, 0, 0, 0>>, <<0, 0, 1, 2>> >> >>

\* camera extrinsics [Rc|tc]
Extrinsics == << << <<1, 0, 0, 0>>, <<0, 1, 0, 0>>, <<0, 0, 1, 3>> >>,
                 << <<1, 0, 0, 1>>, <<0, -1, 0, 2>>, <<0, 0, -1, 3>> >> >>

\* the camera centre of extrinsics [Rc|tc]: -Rc^T tc
CamCentre(Rt) == [j \in 1..3 |-> 0 - Dot3(Col(RotOf(Rt), j), TransOf(Rt))]

\* frame i of the dataset: every field varies with the index
Frame(i) ==
    LET Rt == Extrinsics[((i \div 2) % 2) + 1]
    IN  [head_pose |-> HeadPoses[(i % 2) + 1],
         Rt |-> Rt,
         campos |-> IF i % 3 = 2 THEN <<1, 1, 1>> ELSE CamCentre(Rt),
         K |-> << <<500 + i, 0, 32>>, <<0, 500 + i, 24>>, <<0, 0, 1>> >>,
         registration_vertices |-> (i % 3) * One - One,
         color |-> (i % 2) * 255,
         light_pos |-> [l \in 1..MaxLights |-> <<3 * l - 2 * (i % 3), (i % 2) + 1, 2 - l>>],
         light_intensity |-> [l \in 1..MaxLights |-> ((l + i) % 3) * 50],
         n_lights |-> i % (MaxLights + 1),
         background |-> <<(i % 3) * 40, (i % 3) * 40, (i % 2) * 90, One>>,
         is_fully_lit_frame |-> ((i \div 2) % 2 = 0)]

\* the batch of B consecutive frames starting at frame s; background and
\* is_fully_lit_frame are passed only when withBg / withLit
Batch(s, B, withBg, withLit) ==
    LET F(b) == Frame(s + b - 1)
    IN  [B |-> B,
         head_pose |-> [b \in 1..B |-> F(b).head_pose],
         campos |-> [b \in 1..B |-> F(b).campos],
         registration_vertices |-> [b \in 1..B |-> F(b).registration_vertices],
         color |-> [b \in 1..B |-> F(b).color],
         light_intensity |-> [b \in 1..B |-> F(b).light_intensity],
         light_pos |-> [b \in 1..B |-> F(b).light_pos],
         n_lights |-> [b \in 1..B |-> F(b).n_lights],
         K |-> [b \in 1..B |-> F(b).K],
         Rt |-> [b \in 1..B |-> F(b).Rt],
         background |-> IF withBg THEN [b \in 1..B |-> F(b).background] ELSE None,
         is_fully_lit_frame |->
             IF withLit THEN [b \in 1..B |-> F(b).is_fully_lit_frame] ELSE None]

Batches ==
    {Batch(s, B, wb, wl) : s \in 0..(NFrames - 1), B \in 1..MaxB,
                           wb \in BOOLEAN, wl \in BOOLEAN}

----------------------------------------------------------------------------
(* The learned layers: deterministic functions of the parameters W. *)

\* LeakyReLU(0.2)
LeakyReLU(x) == IF x >= 0 THEN x ELSE Mul(x, 20)

\* a weight-normalised linear layer: layer i's weight and bias derive from w
Linear(w, i, x) == Mul(((w + i) % 5) * 25 - 50, x) + 10 * i

\* the raw values a decoder head can produce
RawVals == <<-20 * One, -3 * One, -One, 0, One, 3 * One, 20 * One>>

\* channel ch of a transposed-convolution stack of the decoder on input x
ConvTrans(w, x, ch) == RawVals[((w + (x \div 10) + 2 * ch) % Len(RawVals)) + 1]

----------------------------------------------------------------------------
(* The opaque primitives: each outcome is selected by ext. *)

\* th.randn_like: the noise of batch entry b
Randn(e, b) == <<0 - One, 0, One, 250>>[((e + b) % 4) + 1]

\* render_gs: the splatting primitive's output for batch entry b
SplatOuts ==
    << [render |-> <<20, 40, 60>>, final_T |-> 0, depth |-> 300],
       [render |-> <<0, 0, 0>>, final_T |-> One, depth |-> 0],
       [render |-> <<10, 10, 90>>, final_T |-> 98, depth |-> 4],
       [render |-> <<50, 0, 25>>, final_T |-> 40, depth |-> 120],
       [render |-> <<One, One, One>>, final_T |-> 95, depth |-> 10],
       [render |-> <<5, 70, 5>>, final_T |-> 96, depth |-> 7] >>

render_gs(e, b) == SplatOuts[((e + b) % Len(SplatOuts)) + 1]

\* evaluate_gaussian / mipmap_grid_sample: the specular value per colour channel
SpecOuts == << <<0, 0, 0>>, <<130, 90, 250>>, <<-15, 40, 100>> >>

SpecSample(e, b) == SpecOuts[(((e \div 2) + b) % Len(SpecOuts)) + 1]

----------------------------------------------------------------------------
(* Encoder and GeomDecoder. *)

\* the reparameterisation applied in either mode
EmbsOfNoisy(train, embs_mu, embs_logvar, noise) ==
    embs_mu + Mul(Mul(Exp(embs_logvar), noise), noise_std)

\* the reparameterisation of Encoder.forward: noise only in training mode
EmbsOf(train, embs_mu, embs_logvar, noise) ==
    IF train THEN embs_mu + Mul(Mul(Exp(embs_logvar), noise), noise_std)
    ELSE embs_mu

\* Encoder.forward on one batch entry
EncoderForward(w, train, geom, color, noise) ==
    LET geomout == LeakyReLU(Linear(w, 1, geom))
        texout == LeakyReLU(Linear(w, 2, Div(color, 255) - 50))
        encout == LeakyReLU(Linear(w, 3, geomout + texout))
        embs_mu == Mul(Linear(w, 4, encout), mean_scale)
        embs_logvar == Mul(Linear(w, 5, encout), logvar_scale)
    IN  [embs |-> EmbsOf(train, embs_mu, embs_logvar, noise),
         embs_mu |-> embs_mu,
         embs_logvar |-> embs_logvar]

\* GeomDecoder.forward on one batch entry: one vertex
GeomDecoderForward(w, embs) ==
    LET h == LeakyReLU(Linear(w, 6, embs))
    IN  [face_geom |-> [i \in 1..3 |->
            Mul(Linear(w, 6 + i, h), Assets.verts_std) + Assets.verts_mean[i]]]

----------------------------------------------------------------------------
(* Spherical harmonics and the geometry module. *)

\* the number of SH coefficients of degree n
ShCount(n) == (n + 1) * (n + 1)

\* sh.dir2sh_torch: the real SH basis at unit direction d, degrees 0..2 and a
\* cubic stand-in above
DirToSh(n, d) ==
    Bind(d, LAMBDA v :
        [k \in 1..ShCount(n) |->
            CASE k = 1 -> 28
              [] k = 2 -> 0 - Mul(49, v[2])
              [] k = 3 -> Mul(49, v[3])
              [] k = 4 -> 0 - Mul(49, v[1])
              [] k = 5 -> Mul(109, Mul(v[1], v[2]))
              [] k = 6 -> 0 - Mul(109, Mul(v[2], v[3]))
              [] k = 7 -> Mul(32, 3 * Mul(v[3], v[3]) - One)
              [] k = 8 -> 0 - Mul(109, Mul(v[1], v[3]))
              [] k = 9 -> Mul(55, Mul(v[1], v[1]) - Mul(v[2], v[2]))
              [] OTHER -> Mul(Mul(v[1], v[2]), v[3])])

\* GeometryModule.to_uv of one vertex: the vertex itself
ToUv(v) == v

\* GeometryModule.vn: the vertex normal of the one-vertex mesh
VertNormals(geom) == <<geom[2], geom[3], 0 - geom[1]>>

----------------------------------------------------------------------------
(* PrimDecoder. *)

\* PrimDecoder.__init__: the channel counts
n_color_sh_coeffs(c) == ShCount(c.n_color_sh)

n_mono_sh_coeffs(c) == ShCount(c.n_diff_sh) - n_color_sh_coeffs(c)

n_diff_coeffs(c) == 3 * n_color_sh_coeffs(c) + n_mono_sh_coeffs(c)

\* diffuse_sh + Gaussian params + roughness
vind_ch(c) == n_diff_coeffs(c) + 11 + 1

\* normal + visibility
vd_ch == 4

\* the channel indices (1-based) of the three slices of f_vnocond
DiffChannels(c) == 1..n_diff_coeffs(c)

GeomChannels(c) == (n_diff_coeffs(c) + 1)..(n_diff_coeffs(c) + 11)

SigmaChannels(c) == (n_diff_coeffs(c) + 11 + 1)..vind_ch(c)

\* the slices of f_geom: position, quaternion, scale, opacity
PosSlice == 1..3

QvecSlice == 4..7

ScaleSlice == 8..10

OpacitySlice == 11..11

\* the least index of the range r
Lo(r) == CHOOSE m \in r : \A j \in r : m <= j

\* the elements of sequence f at the index range r, in order
Slice(f, r) ==
    Bind(<<f, Lo(r)>>, LAMBDA p : [i \in 1..Cardinality(r) |-> p[1][p[2] + i - 1]])

\* diff_shs after the reshape and the broadcast of the monochrome part:
\* per colour channel, the colour coefficients followed by the mono ones
DiffShs(c, f) ==
    Bind(Slice(f, DiffChannels(c)), LAMBDA d :
        [ch \in 1..3 |-> [k \in 1..(n_color_sh_coeffs(c) + n_mono_sh_coeffs(c)) |->
            IF k <= n_color_sh_coeffs(c)
            THEN d[(ch - 1) * n_color_sh_coeffs(c) + k]
            ELSE d[3 * n_color_sh_coeffs(c) + (k - n_color_sh_coeffs(c))]]])

RECURSIVE SumTo(_, _)
\* sum of g[1..n]
SumTo(g, n) == IF n = 0 THEN 0 ELSE SumTo(g, n - 1) + g[n]

\* F.normalize of a 4-vector
Normalize4(q) ==
    Bind(q, LAMBDA u :
    Bind(Dot4(u, u), LAMBDA d :
        IF d = 0 THEN <<0, 0, 0, 0>>
        ELSE IF d < 1000 * One
        THEN Bind(ISqrt(d * One * One), LAMBDA n : [i \in 1..4 |-> (u[i] * One * One) \div n])
        ELSE Bind(ISqrt(d), LAMBDA n : [i \in 1..4 |-> (u[i] * One) \div n])))

\* primscale = F.softplus(f_geom[..., 7:10])
PrimScale(fg) == [i \in 1..3 |-> Softplus(Slice(fg, ScaleSlice)[i])]

\* opacity = th.sigmoid(f_geom[..., 10:11])
Opacity(fg) == Sigmoid(Slice(fg, OpacitySlice)[1])

\* the roughness left unclamped
RoughnessUnclamped(s) == Mul(Exp(s), 10)

\* sigma = (th.exp(sigma) * 0.1).clamp(min=0.01)
Roughness(s) == ClampMin(Mul(Exp(s), 10), 1)

\* spec_vis = th.sigmoid(f_vcond[..., :1])
SpecVis(fc) == Sigmoid(fc[1])

\* the specular colour with the environment lookup left unclamped
SpecColorUnclamped(useEnv, sample, spec_vis) == [c \in 1..3 |-> Mul(sample[c], spec_vis)]

\* the specular colour from the sampled primitive value, for either model
SpecColor(useEnv, sample, spec_vis) ==
    IF useEnv THEN [c \in 1..3 |-> Mul(ClampMax(sample[c], One), spec_vis)]
    ELSE [c \in 1..3 |-> Mul(sample[c], spec_vis)]

\* color.clamp(min=0.0) of diff_color + spec_color
OutColor(diff_color, spec_color) ==
    [c \in 1..3 |-> ClampMin(diff_color[c] + spec_color[c], 0)]

\* lines 483-504: the positional and normal maps and the two decoders' outputs
PrimFeatures(c, w, a) ==
    Bind(<<LeakyReLU(Linear(w, 10, a.embs)), Normalize(a.headrel_campos)>>, LAMBDA t :
    Bind(LeakyReLU(Linear(w, 11, t[2][1] + t[2][2] + t[2][3])), LAMBDA view :
        [primposbase |-> ToUv(a.geom),
         vn |-> Normalize(ToUv(VertNormals(a.geom))),
         f_vnocond |-> [ch \in 1..vind_ch(c) |-> ConvTrans(w, t[1], ch)],
         f_vcond |-> [ch \in 1..vd_ch |-> ConvTrans(w + 1, t[1] + view, ch)]]))

\* lines 506-531: the decoded parameters of the Gaussian
PrimParams(c, ft) ==
    Bind(<<Slice(ft.f_vnocond, GeomChannels(c)), [i \in 1..3 |-> ft.f_vcond[i + 1]]>>,
         LAMBDA t :
    LET f_geom == t[1]
        spec_dnml == t[2]
    IN  [diff_shs |-> DiffShs(c, ft.f_vnocond),
         primpos |-> [i \in 1..3 |-> Slice(f_geom, PosSlice)[i] + ft.primposbase[i]],
         primqvec |-> Normalize4(Slice(f_geom, QvecSlice)),
         primscale |-> PrimScale(f_geom),
         opacity |-> Opacity(f_geom),
         sigma |-> Roughness(Slice(ft.f_vnocond, SigmaChannels(c))[1]),
         spec_vis |-> SpecVis(ft.f_vcond),
         spec_dnml |-> spec_dnml,
         spec_nml |-> Normalize([i \in 1..3 |-> spec_dnml[i] + ft.vn[i]])])

\* the reflected view direction (lines 544-545)
RefDirs(primpos, headrel_campos, spec_nml) ==
    Bind(Normalize(VecSub(primpos, headrel_campos)), LAMBDA view_local :
        [i \in 1..3 |-> view_local[i]
                        - 2 * Mul(Dot3(view_local, spec_nml) \div One, spec_nml[i])])

\* the call of the specular primitive (lines 547-564)
SpecCall(a, pp, ref_dirs) ==
    IF a.preconv_envmap # None
    THEN [fn |-> "mipmap_grid_sample",
          dirs |-> [x \in 1..3 |-> Dot3(a.lightrot[x], ref_dirs)],
          rough |-> pp.sigma * 5,
          light_intensity |-> None, light_pos |-> None, n_lights |-> 0]
    ELSE [fn |-> "evaluate_gaussian",
          dirs |-> ref_dirs,
          rough |-> pp.sigma,
          light_intensity |-> a.light_intensity,
          light_pos |-> a.headrel_light_pos, n_lights |-> a.n_lights]

\* lines 533-582: the diffuse and specular colours and the returned preds
PrimShade(a, pp, sample) ==
    LET diff_color == [ch \in 1..3 |->
            Mul(Assets.albedo[ch],
                SumTo([k \in 1..Len(pp.diff_shs[ch]) |->
                          Mul(pp.diff_shs[ch][k], a.headrel_light_sh[ch][k])],
                      Len(pp.diff_shs[ch])))]
        spec_color == SpecColor(a.preconv_envmap # None, sample, pp.spec_vis)
    IN  [raised |-> FALSE,
         preds |-> [color |-> OutColor(diff_color, spec_color),
                    opacity |-> pp.opacity,
                    primpos |-> pp.primpos,
                    primqvec |-> pp.primqvec,
                    primscale |-> pp.primscale,
                    sigma |-> pp.sigma,
                    spec_vis |-> pp.spec_vis,
                    spec_nml |-> pp.spec_nml,
                    spec_dnml |-> pp.spec_dnml,
                    diff_color |-> diff_color,
                    spec_color |-> spec_color],
         diff_shs |-> pp.diff_shs,
         calls |-> <<SpecCall(a, pp, RefDirs(pp.primpos, a.headrel_campos, pp.spec_nml))>>]


\* line 510: diff_shs[..., 3 * n_color_sh_coeffs:].reshape(B, -1, 1, n_mono_sh_coeffs)
\* raises RuntimeError when n_mono_sh_coeffs is 0: Tensor.reshape refuses to
\* infer the -1 dimension of a tensor of 0 elements
MonoReshapeRaises(c) == n_mono_sh_coeffs(c) = 0

\* what a call that raised leaves: no preds
Raised == [raised |-> TRUE, preds |-> Empty, diff_shs |-> <<>>, calls |-> <<>>]

\* PrimDecoder.forward on one batch entry with the arguments a; sample is what
\* the specular primitive returns. The result holds the preds, the broadcast
\* diffuse coefficients and the primitive call made, or tells that the call raised.
PrimDecoderForward(c, w, a, sample) ==
    IF MonoReshapeRaises(c) THEN Raised
    ELSE Bind(PrimFeatures(c, w, a), LAMBDA ft :
             Bind(PrimParams(c, ft), LAMBDA pp : PrimShade(a, pp, sample)))

----------------------------------------------------------------------------
(* AutoEncoder: the post-render steps and the opaque layers they use. *)

\* AutoEncoder.__init__ default
bg_weight == 100

\* CalV5: the learned per-camera colour calibration
Cal(w, rgb) == [c \in 1..3 |-> Mul(rgb[c], 110 + w) + 1 + c]

\* LearnableBlur: the learned blur of an image
LearnBlur(w, rgb) == [c \in 1..3 |-> (rgb[c] + rgb[(c % 3) + 1]) \div 2 + 3 + w]

\* RenderLayer: the mesh rasterizer's output for batch entry b
MeshOuts ==
    << [nml |-> <<0, 0, 0 - One>>, fw |-> One, mask |-> One],
       [nml |-> <<0, 0, One>>, fw |-> One, mask |-> One],
       [nml |-> <<60, 0, -80>>, fw |-> 40, mask |-> One],
       [nml |-> <<0, 0, 0>>, fw |-> 0, mask |-> 0] >>

mesh_renderer(e, b) == MeshOuts[((e + 2 * b) % Len(MeshOuts)) + 1]

\* alpha = 1.0 - final_T
RenderAlpha(final_T) == One - final_T

\* the depth normalised with the divisor clamped at 0.01
RenderDepthLowClamp(raw_depth, alpha) == Div(raw_depth, Clamp(alpha, 1, One))

\* depth = depth / alpha.clamp(0.05, 1.0)
RenderDepth(raw_depth, alpha) == Div(raw_depth, Clamp(alpha, 5, One))

\* compositing whenever a background is given, in either mode
CompositesAlways(train, background) == background # None

\* whether forward composites the background
Composites(train, background) == train /\ background # None

\* bg = background[:, :3].clone(); bg[logical_not(is_fully_lit_frame)] *= 0.0
MaskedBg(background_b, lit_b) == [c \in 1..3 |-> IF lit_b THEN background_b[c] ELSE 0]

\* the caller's background tensor after the masking: untouched, bg is a clone
CallerBackground(background, lit) == background

\* rgb = rgb + (1.0 - alpha) * bg
Composite(rgb_b, alpha_b, bg_b) == [c \in 1..3 |-> rgb_b[c] + Mul(One - alpha_b, bg_b[c])]

\* head_pose with the row [0, 0, 0, 1] appended
HeadPose4x4(hp) == [Append(hp, <<0, 0, 0, 0>>) EXCEPT ![4][4] = 1]

\* the head-relative quantities of one batch entry (forward, lines 230-240)
HeadRel(c, hp, Rt, campos, light_pos, light_intensity) ==
    Bind([li |-> [l \in 1..Len(light_intensity) |-> [ch \in 1..3 |-> light_intensity[l]]],
          lp |-> [l \in 1..Len(light_pos) |->
                    RowTimes3(VecSub(light_pos[l], TransOf(hp)), RotOf(hp))]],
         LAMBDA t :
    Bind([l \in 1..Len(t.lp) |-> DirToSh(c.n_diff_sh, Normalize(t.lp[l]))],
         LAMBDA sh_coeffs :
        [light_intensity |-> t.li,
         head_pose_4x4 |-> HeadPose4x4(hp),
         headrel_Rt |-> MatMul4(Rt, HeadPose4x4(hp)),
         headrel_campos |-> RowTimes3(VecSub(campos, TransOf(hp)), RotOf(hp)),
         headrel_light_pos |-> t.lp,
         headrel_light_sh |-> [ch \in 1..3 |-> [k \in 1..ShCount(c.n_diff_sh) |->
             SumTo([l \in 1..Len(t.lp) |-> Mul(sh_coeffs[l][k], t.li[l][ch])],
                   Len(t.lp))]]]))

\* the blend without its second pass
FaceBlendOnce(bgw, fw, mask) == Mul(Div(fw + bgw, One + bgw), mask)

\* lines 193-199: the face weight blended with bg_weight, twice
FaceBlend(bgw, fw, mask) ==
    Div(Mul(Div(fw + bgw, One + bgw), mask) + bgw, One + bgw)

\* line 204: background[:, :3].mean(1) > 0.5 at one pixel
Bright(px) == px[1] + px[2] + px[3] > 3 * 50

\* line 205: dilate(bg_mask, 81) at a pixel, given the mask over its window
Dilate(window) == IF \E k \in 1..Len(window) : window[k] THEN One ELSE 0

\* AutoEncoder._rasterize_facew at one pixel, given the mesh raster r there and
\* the background pixels of the dilation window around it
RasterizeFacewAt(bgw, r, Rt, window) ==
    LET nml_img == [i \in 1..3 |-> Dot3(RotOf(Rt)[i], r.nml)]
        non_backfacing == IF nml_img[3] <= 0 THEN One ELSE 0
        bg_mask == One - Dilate([k \in 1..Len(window) |-> Bright(window[k])])
    IN  [weight |-> Mul(Mul(FaceBlend(bgw, r.fw, r.mask), non_backfacing), bg_mask),
         mesh_nml |-> nml_img]

\* AutoEncoder._rasterize_facew on one batch entry, given the mesh raster r
RasterizeFacew(r, Rt, background_b) ==
    RasterizeFacewAt(bg_weight, r, Rt, <<background_b>>)

----------------------------------------------------------------------------
(* AutoEncoder.forward, stage by stage. *)

\* the stages of forward in the order of its code
Stages == <<"headrel", "encoder", "geomdecoder", "decoder", "render",
            "cal", "composite", "facew", "blur">>

StageIndex(s) == CHOOSE i \in 1..Len(Stages) : Stages[i] = s

\* the order with calibration and compositing exchanged
NextPcCompositeFirst(s) ==
    CASE s = "render" -> "composite"
      [] s = "composite" -> "cal"
      [] s = "cal" -> "facew"
      [] s = "blur" -> "done"
      [] OTHER -> Stages[StageIndex(s) + 1]

\* the position after stage s
NextPc(s) == IF StageIndex(s) = Len(Stages) THEN "done" ELSE Stages[StageIndex(s) + 1]

\* a sequence of per-entry records as a record of per-entry sequences
\* (the sequence is bound once, by the singleton set)
Batched(per) ==
    CHOOSE r \in {[k \in DOMAIN p[1] |-> [b \in 1..Len(p) |-> p[b][k]]] : p \in {per}} : TRUE

RenderIdle == [b |-> 0, rgbs |-> <<>>, Ts |-> <<>>, depths |-> <<>>, calls |-> <<>>]

\* the model configuration used when the pipeline runs
PipelineCfg == [n_diff_sh |-> 1, n_color_sh |-> 0]

\* a caller invokes model(**batch)
Call(batch) ==
    /\ pc = "idle"
    /\ args' = batch
    /\ loc' = Empty
    /\ preds' = Empty
    /\ log' = <<>>
    /\ rs' = RenderIdle
    /\ pc' = Stages[1]
    /\ \E e \in 0..MaxExt : ext' = e
    /\ UNCHANGED <<modelVars, prim, enc>>

\* lines 228-240: everything into head-relative coordinates
StageHeadRel ==
    /\ pc = "headrel"
    /\ loc' = Merge(loc, Batched([b \in 1..args.B |->
                  HeadRel(cfg, args.head_pose[b], args.Rt[b], args.campos[b],
                          args.light_pos[b], args.light_intensity[b])]))
    /\ log' = Append(log, "headrel")
    /\ pc' = NextPc("headrel")
    /\ UNCHANGED <<modelVars, args, preds, rs, ext, prim, enc, drv>>

\* lines 242-244: encoding
StageEncoder ==
    /\ pc = "encoder"
    /\ \E enc_preds \in {Batched([b \in 1..args.B |->
               EncoderForward(W, training, args.registration_vertices[b],
                              args.color[b], Randn(ext, b))])} :
           loc' = Merge(loc, [enc_preds |-> enc_preds, embs |-> enc_preds.embs])
    /\ log' = Append(log, "encoder")
    /\ pc' = NextPc("encoder")
    /\ UNCHANGED <<modelVars, args, preds, rs, ext, prim, enc, drv>>

\* lines 246-248: geometry decoding
StageGeomDecoder ==
    /\ pc = "geomdecoder"
    /\ loc' = Merge(loc, [geom |-> [b \in 1..args.B |->
                  GeomDecoderForward(W, loc.embs[b]).face_geom]])
    /\ log' = Append(log, "geomdecoder")
    /\ pc' = NextPc("geomdecoder")
    /\ UNCHANGED <<modelVars, args, preds, rs, ext, prim, enc, drv>>

\* the decoder given the camera position of the world frame
DecoderArgsRaw(b) ==
    [embs |-> loc.embs[b], geom |-> loc.geom[b],
     headrel_campos |-> args.campos[b],
     light_intensity |-> loc.light_intensity[b],
     headrel_light_pos |-> loc.headrel_light_pos[b],
     headrel_light_sh |-> loc.headrel_light_sh[b],
     n_lights |-> args.n_lights[b],
     preconv_envmap |-> None, lightrot |-> None]

\* the arguments forward passes to the decoder for batch entry b (line 250)
DecoderArgs(b) ==
    [embs |-> loc.embs[b], geom |-> loc.geom[b],
     headrel_campos |-> loc.headrel_campos[b],
     light_intensity |-> loc.light_intensity[b],
     headrel_light_pos |-> loc.headrel_light_pos[b],
     headrel_light_sh |-> loc.headrel_light_sh[b],
     n_lights |-> args.n_lights[b],
     preconv_envmap |-> None, lightrot |-> None]

\* lines 250-257: Gaussian decoding and the preds dict
StageDecoder ==
    /\ pc = "decoder"
    /\ \E dec \in {[b \in 1..args.B |->
               PrimDecoderForward(cfg, W, DecoderArgs(b), SpecSample(ext, b))]} :
           IF \E b \in 1..args.B : dec[b].raised
           THEN /\ pc' = "error"
                /\ UNCHANGED <<preds, loc>>
           ELSE /\ preds' = Merge(Merge([geom |-> loc.geom,
                                         headrel_light_sh |-> loc.headrel_light_sh],
                                        loc.enc_preds),
                                  Batched([b \in 1..args.B |-> dec[b].preds]))
                /\ loc' = Merge(loc, [dec_in |-> [b \in 1..args.B |-> DecoderArgs(b)],
                                      dec_calls |-> [b \in 1..args.B |-> dec[b].calls]])
                /\ pc' = NextPc("decoder")
    /\ log' = Append(log, "decoder")
    /\ UNCHANGED <<modelVars, args, rs, ext, prim, enc, drv>>

\* AutoEncoder.render, loop body (lines 136-155): one splat per batch entry
RenderStep ==
    /\ pc = "render"
    /\ rs.b < args.B
    /\ LET b == rs.b + 1
           out == render_gs(ext, b)
       IN  rs' = [b |-> b,
                  rgbs |-> Append(rs.rgbs, out.render),
                  Ts |-> Append(rs.Ts, out.final_T),
                  depths |-> Append(rs.depths, out.depth),
                  calls |-> Append(rs.calls,
                      [b |-> b,
                       fx |-> args.K[b][1][1], fy |-> args.K[b][2][2],
                       cx |-> args.K[b][1][3], cy |-> args.K[b][2][3],
                       Rt |-> loc.headrel_Rt[b],
                       primpos |-> preds.primpos[b],
                       primqvec |-> preds.primqvec[b],
                       primscale |-> preds.primscale[b],
                       opacity |-> preds.opacity[b],
                       colors |-> preds.color[b]])]
    /\ UNCHANGED <<modelVars, pc, args, loc, preds, log, ext, prim, enc, drv>>

\* AutoEncoder.render, lines 157-168, and the return to forward (line 259)
RenderFinish ==
    /\ pc = "render"
    /\ rs.b = args.B
    /\ LET alpha == [b \in 1..Len(rs.Ts) |-> RenderAlpha(rs.Ts[b])]
       IN  loc' = Merge(loc,
               [rgb |-> rs.rgbs,
                alpha |-> alpha,
                depth |-> [b \in 1..Len(rs.depths) |-> RenderDepth(rs.depths[b], alpha[b])],
                render_rgb |-> rs.rgbs])
    /\ rs' = [rs EXCEPT !.rgbs = <<>>, !.Ts = <<>>, !.depths = <<>>]
    /\ log' = Append(log, "render")
    /\ pc' = NextPc("render")
    /\ UNCHANGED <<modelVars, args, preds, ext, prim, enc, drv>>

\* lines 261-262: colour calibration, when enabled
StageCal ==
    /\ pc = "cal"
    /\ IF cal_enabled
       THEN /\ loc' = [loc EXCEPT !.rgb = [b \in 1..args.B |-> Cal(W, loc.rgb[b])]]
            /\ log' = Append(log, "cal")
       ELSE UNCHANGED <<loc, log>>
    /\ pc' = NextPc("cal")
    /\ UNCHANGED <<modelVars, args, preds, rs, ext, prim, enc, drv>>

\* lines 264-274: background compositing in training, then preds.update
StageComposite ==
    /\ pc = "composite"
    /\ IF Composites(training, args.background)
       THEN IF args.is_fully_lit_frame = None
            THEN \* th.logical_not(None) raises TypeError
                 /\ pc' = "error"
                 /\ UNCHANGED <<args, loc, preds, log>>
            ELSE /\ args' = [args EXCEPT !.background =
                                CallerBackground(args.background, args.is_fully_lit_frame)]
                 /\ loc' = [loc EXCEPT !.rgb = [b \in 1..args.B |->
                        Composite(loc.rgb[b], loc.alpha[b],
                                  MaskedBg(args.background[b], args.is_fully_lit_frame[b]))]]
                 /\ preds' = Merge(preds, [rgb |-> loc'.rgb, alpha |-> loc.alpha,
                                           depth |-> loc.depth])
                 /\ log' = Append(log, "composite")
                 /\ pc' = NextPc("composite")
       ELSE /\ preds' = Merge(preds, [rgb |-> loc.rgb, alpha |-> loc.alpha,
                                      depth |-> loc.depth])
            /\ pc' = NextPc("composite")
            /\ UNCHANGED <<args, loc, log>>
    /\ UNCHANGED <<modelVars, rs, ext, prim, enc, drv>>

\* lines 276-280: the face-weight rasterization in training
StageFacew ==
    /\ pc = "facew"
    /\ IF training
       THEN IF args.background = None
            THEN \* background[:, :3] of None raises TypeError (line 204)
                 /\ pc' = "error"
                 /\ log' = Append(log, "facew")
                 /\ UNCHANGED preds
            ELSE /\ preds' = Merge(preds, Batched([b \in 1..args.B |->
                        LET r == RasterizeFacew(mesh_renderer(ext, b), loc.headrel_Rt[b],
                                                args.background[b])
                        IN  [image_weight |-> r.weight, mesh_nml |-> r.mesh_nml]]))
                 /\ log' = Append(log, "facew")
                 /\ pc' = NextPc("facew")
       ELSE /\ pc' = NextPc("facew")
            /\ UNCHANGED <<preds, log>>
    /\ UNCHANGED <<modelVars, args, loc, rs, ext, prim, enc, drv>>

\* lines 282-287: the learnable blur, when enabled, and the return
StageBlur ==
    /\ pc = "blur"
    /\ IF learn_blur_enabled
       THEN /\ preds' = Merge(preds,
                   [rgb |-> [b \in 1..args.B |-> LearnBlur(W, preds.rgb[b])],
                    learn_blur_weights |-> W])
            /\ log' = Append(log, "blur")
       ELSE UNCHANGED <<preds, log>>
    /\ pc' = NextPc("blur")
    /\ UNCHANGED <<modelVars, args, loc, rs, ext, prim, enc, drv>>

\* the stages of a running call
Forward ==
    \/ StageHeadRel
    \/ StageEncoder
    \/ StageGeomDecoder
    \/ StageDecoder
    \/ RenderStep
    \/ RenderFinish
    \/ StageCal
    \/ StageComposite
    \/ StageFacew
    \/ StageBlur

----------------------------------------------------------------------------
(* The pipeline called directly, in any mode. *)

DrvDirect == [pc |-> "direct", ckpt |-> FALSE, withBg |-> FALSE, batch_size |-> 1,
              events |-> <<>>, batch |-> 0, calls |-> 0]

PrimIdle == [state |-> "none"]

EncIdle == <<>>

\* the state after construction: no call running
InitForward ==
    /\ pc = "idle"
    /\ args = Empty
    /\ loc = Empty
    /\ preds = Empty
    /\ log = <<>>
    /\ rs = RenderIdle
    /\ ext = 0

Init ==
    /\ W = 0
    /\ training \in BOOLEAN
    /\ cal_enabled \in BOOLEAN
    /\ learn_blur_enabled \in BOOLEAN
    /\ cfg = PipelineCfg
    /\ InitForward
    /\ prim = PrimIdle
    /\ enc = EncIdle
    /\ drv = DrvDirect

\* a caller invokes the model on a batch
DirectCall ==
    /\ drv.pc = "direct"
    /\ pc = "idle"
    /\ \E batch \in Batches : Call(batch)
    /\ UNCHANGED drv

\* the call returns its preds, or its exception propagates
Return ==
    /\ drv.pc = "direct"
    /\ pc \in {"done", "error"}
    /\ pc' = "idle"
    /\ args' = Empty
    /\ loc' = Empty
    /\ preds' = Empty
    /\ log' = <<>>
    /\ rs' = RenderIdle
    /\ ext' = 0
    /\ UNCHANGED <<modelVars, prim, enc, drv>>

Next == DirectCall \/ Forward \/ Return

Spec == Init /\ [][Next]_vars

----------------------------------------------------------------------------
(* run_test.main: the test driver. *)

\* the parameters a freshly constructed model holds, and a checkpoint's
InitW == 0

CkptWs == 1..MaxW

\* before main runs: the configuration is given, nothing is built
InitMain ==
    /\ W = InitW
    /\ training = TRUE
    /\ cal_enabled = FALSE
    /\ learn_blur_enabled = FALSE
    /\ cfg = PipelineCfg
    /\ InitForward
    /\ prim = PrimIdle
    /\ enc = EncIdle
    /\ \E ckpt \in BOOLEAN, withBg \in BOOLEAN, bs \in 1..MaxB :
           drv = [pc |-> "start", ckpt |-> ckpt, withBg |-> withBg, batch_size |-> bs,
                  events |-> <<>>, batch |-> 0, calls |-> 0]

\* lines 30-47: the train dataset, the model (put in eval mode), the loss, the
\* train loader; the model's flags are as its configuration constructs them
MainConstruct ==
    /\ drv.pc = "start"
    /\ W' = InitW
    /\ training' = FALSE
    /\ cal_enabled' \in BOOLEAN
    /\ learn_blur_enabled' \in BOOLEAN
    /\ drv' = [drv EXCEPT !.pc = "ckpt",
                          !.events = drv.events \o
                              <<"train_dataset", "model", "loss_fn", "train_loader">>]
    /\ UNCHANGED <<cfg, fwdVars, ext, prim, enc>>

\* main going on without a checkpoint
MainCheckpointOptional ==
    /\ drv.pc = "ckpt"
    /\ IF drv.ckpt
       THEN /\ W' \in CkptWs
            /\ drv' = [drv EXCEPT !.pc = "testdata",
                                  !.events = Append(drv.events, "load_checkpoint")]
       ELSE /\ drv' = [drv EXCEPT !.pc = "testdata"]
            /\ UNCHANGED W
    /\ UNCHANGED <<training, cal_enabled, learn_blur_enabled, cfg, fwdVars, ext, prim, enc>>

\* lines 49-53: load the checkpoint, or raise ValueError("No checkpoint provided")
MainCheckpoint ==
    /\ drv.pc = "ckpt"
    /\ IF drv.ckpt
       THEN /\ W' \in CkptWs
            /\ drv' = [drv EXCEPT !.pc = "testdata",
                                  !.events = Append(drv.events, "load_checkpoint")]
       ELSE /\ drv' = [drv EXCEPT !.pc = "ValueError"]
            /\ UNCHANGED W
    /\ UNCHANGED <<training, cal_enabled, learn_blur_enabled, cfg, fwdVars, ext, prim, enc>>

\* lines 55-65: the test dataset and its loader, unshuffled
MainTestData ==
    /\ drv.pc = "testdata"
    /\ drv' = [drv EXCEPT !.pc = "disable",
                          !.events = drv.events \o <<"test_dataset", "test_loader">>]
    /\ UNCHANGED <<modelVars, fwdVars, ext, prim, enc>>

\* main leaving the flags as the configuration set them
MainDisableNothing ==
    /\ drv.pc = "disable"
    /\ drv' = [drv EXCEPT !.pc = "test",
                          !.events = Append(drv.events, "summary_fn")]
    /\ UNCHANGED <<modelVars, fwdVars, ext, prim, enc>>

\* lines 69-73: disable the learn-only steps; the summary function
MainDisable ==
    /\ drv.pc = "disable"
    /\ learn_blur_enabled' = FALSE
    /\ cal_enabled' = FALSE
    /\ drv' = [drv EXCEPT !.pc = "test",
                          !.events = Append(drv.events, "summary_fn")]
    /\ UNCHANGED <<W, training, cfg, fwdVars, ext, prim, enc>>

\* lines 77-88: test() is invoked
MainTest ==
    /\ drv.pc = "test"
    /\ drv' = [drv EXCEPT !.pc = "testing",
                          !.events = Append(drv.events, "test")]
    /\ UNCHANGED <<modelVars, fwdVars, ext, prim, enc>>

\* the number of batches of the test loader
NumBatches(bs) == (NFrames + bs - 1) \div bs

\* batch k (from 0) of the unshuffled test loader
TestBatch(k, bs, withBg) ==
    Batch(k * bs, Min2(bs, NFrames - k * bs), withBg, withBg)

\* test(): the model is called on the next batch of the loader
TestCall ==
    /\ drv.pc = "testing"
    /\ pc = "idle"
    /\ drv.batch < NumBatches(drv.batch_size)
    /\ Call(TestBatch(drv.batch, drv.batch_size, drv.withBg))
    /\ drv' = [drv EXCEPT !.calls = drv.calls + 1]

\* test(): the call returns and the loop goes on
TestReturn ==
    /\ drv.pc = "testing"
    /\ pc \in {"done", "error"}
    /\ pc' = "idle"
    /\ args' = Empty
    /\ loc' = Empty
    /\ preds' = Empty
    /\ log' = <<>>
    /\ rs' = RenderIdle
    /\ ext' = 0
    /\ drv' = [drv EXCEPT !.batch = drv.batch + 1]
    /\ UNCHANGED <<modelVars, prim, enc>>

\* test() returns when the loader is exhausted, and main ends
MainDone ==
    /\ drv.pc = "testing"
    /\ pc = "idle"
    /\ drv.batch = NumBatches(drv.batch_size)
    /\ drv' = [drv EXCEPT !.pc = "exit"]
    /\ UNCHANGED <<modelVars, fwdVars, ext, prim, enc>>

NextMain ==
    \/ MainConstruct
    \/ MainCheckpoint
    \/ MainTestData
    \/ MainDisable
    \/ MainTest
    \/ TestCall
    \/ Forward
    \/ TestReturn
    \/ MainDone

SpecMain == InitMain /\ [][NextMain]_vars

----------------------------------------------------------------------------
(* PrimDecoder.forward called directly, under every configuration. *)

\* the configurations with 0 <= n_color_sh <= n_diff_sh <= MaxSh
Configs == {x \in [n_diff_sh : 0..MaxSh, n_color_sh : 0..MaxSh] : x.n_color_sh <= x.n_diff_sh}

\* latent codes, environment maps and light rotations a caller passes
EmbsVals == {-50, 0, 120}

EnvMaps == {None, <<50, 120>>}

LightRots == {RotOf(HeadPoses[1]), RotOf(HeadPoses[2])}

\* the decoder arguments built from frame i as forward builds them
PrimArgs(c, i, embs, envmap, lightrot) ==
    Bind(Frame(i), LAMBDA F :
    Bind(HeadRel(c, F.head_pose, F.Rt, F.campos, F.light_pos, F.light_intensity),
         LAMBDA hr :
        [embs |-> embs,
         geom |-> GeomDecoderForward(InitW, embs).face_geom,
         headrel_campos |-> hr.headrel_campos,
         light_intensity |-> hr.light_intensity,
         headrel_light_pos |-> hr.headrel_light_pos,
         headrel_light_sh |-> hr.headrel_light_sh,
         n_lights |-> F.n_lights,
         preconv_envmap |-> envmap,
         lightrot |-> lightrot]))

InitPrim ==
    /\ W \in 0..MaxW
    /\ training = FALSE
    /\ cal_enabled = FALSE
    /\ learn_blur_enabled = FALSE
    /\ cfg \in Configs
    /\ InitForward
    /\ prim = PrimIdle
    /\ enc = EncIdle
    /\ drv = DrvDirect

\* a caller invokes decoder(embs, geom, ..., preconv_envmap, lightrot)
PrimCall ==
    /\ prim.state = "none"
    /\ \E i \in 0..(NFrames - 1), embs \in EmbsVals, envmap \in EnvMaps,
          lightrot \in LightRots :
         /\ (envmap = None => lightrot = RotOf(HeadPoses[1]))
         /\ \E a \in {PrimArgs(cfg, i, embs, envmap,
                               IF envmap = None THEN None ELSE lightrot)} :
              \E k \in 1..Len(SpecOuts) :
                  \E out \in {PrimDecoderForward(cfg, W, a, SpecOuts[k])} :
                      prim' = [state |-> IF out.raised THEN "raised" ELSE "returned",
                               in |-> a, sample |-> SpecOuts[k], out |-> out]
    /\ UNCHANGED <<modelVars, fwdVars, ext, enc, drv>>

\* the caller drops the result, or handles the exception
PrimReturn ==
    /\ prim.state # "none"
    /\ prim' = PrimIdle
    /\ UNCHANGED <<modelVars, fwdVars, ext, enc, drv>>

NextPrim == PrimCall \/ PrimReturn

SpecPrim == InitPrim /\ [][NextPrim]_vars

----------------------------------------------------------------------------
(* The head-relative transform of forward on rigid poses. *)

\* the rotations with entries in {-1, 0, 1}: the 24 rotations of the cube
Rotations ==
    {M \in [1..3 -> [1..3 -> {-1, 0, 1}]] :
        /\ \A i, j \in 1..3 :
               M[i][1] * M[j][1] + M[i][2] * M[j][2] + M[i][3] * M[j][3]
                   = (IF i = j THEN 1 ELSE 0)
        /\ M[1][1] * (M[2][2] * M[3][3] - M[2][3] * M[3][2])
           - M[1][2] * (M[2][1] * M[3][3] - M[2][3] * M[3][1])
           + M[1][3] * (M[2][1] * M[3][2] - M[2][2] * M[3][1]) = 1}

Translations == {<<0, 0, 0>>, <<1, 0, 2>>, <<-2, 3, 1>>}

\* the 3x4 matrix [R|t]
Rigid(R, t) == [i \in 1..3 |-> <<R[i][1], R[i][2], R[i][3], t[i]>>]

\* the rigid head poses, and the camera extrinsics (rotations about z and x)
RigidPoses == {Rigid(R, t) : R \in Rotations, t \in Translations}

CamRts ==
    {Rigid(R, t) : R \in {M \in Rotations : M[3][3] = 1 \/ M[1][1] = 1},
                   t \in {<<0, 0, 3>>, <<1, 2, 3>>}}

\* forward's head-relative block on one sample: a rigid head pose, extrinsics
\* with the camera centre they imply, and the lights of a frame
RelCall ==
    /\ prim.state = "none"
    /\ \E hp \in RigidPoses, Rt \in CamRts, i \in 0..2 :
         \E F \in {Frame(i)} :
             prim' = [state |-> "headrel",
                      in |-> [head_pose |-> hp, Rt |-> Rt, campos |-> CamCentre(Rt),
                              light_pos |-> F.light_pos,
                              light_intensity |-> F.light_intensity],
                      out |-> HeadRel(cfg, hp, Rt, CamCentre(Rt), F.light_pos,
                                      F.light_intensity)]
    /\ UNCHANGED <<modelVars, fwdVars, ext, enc, drv>>

InitRel ==
    /\ W = InitW
    /\ training = FALSE
    /\ cal_enabled = FALSE
    /\ learn_blur_enabled = FALSE
    /\ cfg = PipelineCfg
    /\ InitForward
    /\ prim = PrimIdle
    /\ enc = EncIdle
    /\ drv = DrvDirect

NextRel == RelCall \/ PrimReturn

SpecRel == InitRel /\ [][NextRel]_vars

----------------------------------------------------------------------------
(* AutoEncoder._rasterize_facew called on its own, pixel by pixel. *)

\* values of the constructor's bg_weight
BgWeights == {0, 50, One, 3 * One}

\* mesh normals at a covered pixel
FacewNormals == {<<0, 0, 0 - One>>, <<0, 0, One>>, <<60, 0, -80>>, <<One, 0, 0>>}

\* what the mesh renderer gives at a pixel: normal, face weight and mask on
\* the mesh, zeros off it
FacewRasters ==
    {[nml |-> n, fw |-> f, mask |-> One] : n \in FacewNormals, f \in {0, 40, One}}
        \cup {[nml |-> <<0, 0, 0>>, fw |-> 0, mask |-> 0]}

\* background pixels: dark, at the 0.5 threshold, just above it, white
FacewBackgrounds ==
    {<<0, 0, 0>>, <<50, 50, 50>>, <<One, 50, 0>>, <<51, 50, 50>>, <<One, One, One>>}

\* the face weight at a pixel: the raster there, the extrinsics, and the
\* background at the pixel and at another pixel of its dilation window
FacewCall ==
    /\ prim.state = "none"
    /\ \E bgw \in BgWeights, r \in FacewRasters, e \in 1..Len(Extrinsics) :
         \E here \in FacewBackgrounds, near \in FacewBackgrounds :
             prim' = [state |-> "facew",
                      in |-> [bg_weight |-> bgw, render |-> r, Rt |-> Extrinsics[e],
                              background |-> <<here, near>>],
                      out |-> RasterizeFacewAt(bgw, r, Extrinsics[e], <<here, near>>)]
    /\ UNCHANGED <<modelVars, fwdVars, ext, enc, drv>>

NextFacew == FacewCall \/ PrimReturn

SpecFacew == InitRel /\ [][NextFacew]_vars

----------------------------------------------------------------------------
(* Encoder.forward called directly, in either mode. *)

\* the registered geometry and the texture a caller passes
EncGeoms == {0 - One, 0, One}

EncColors == {0, 255}

InitEnc ==
    /\ W \in 0..MaxW
    /\ training \in BOOLEAN
    /\ cal_enabled = FALSE
    /\ learn_blur_enabled = FALSE
    /\ cfg = PipelineCfg
    /\ InitForward
    /\ prim = PrimIdle
    /\ enc = EncIdle
    /\ drv = DrvDirect

\* nn.Module.train() / nn.Module.eval()
SetMode ==
    /\ training' = ~training
    /\ UNCHANGED <<W, cal_enabled, learn_blur_enabled, cfg, fwdVars, ext, prim, enc, drv>>

\* a caller invokes encoder(geom, color); enc keeps the last two calls
EncCall ==
    /\ \E geom \in EncGeoms, color \in EncColors, noise \in {Randn(e, 1) : e \in 0..MaxExt} :
         \E r \in {[train |-> training, geom |-> geom, color |-> color,
                   noise |-> noise,
                   out |-> EncoderForward(W, training, geom, color, noise)]} :
            enc' = IF Len(enc) < 2 THEN Append(enc, r) ELSE <<enc[2], r>>
    /\ UNCHANGED <<modelVars, fwdVars, ext, prim, drv>>

NextEnc == SetMode \/ EncCall

SpecEnc == InitEnc /\ [][NextEnc]_vars

----------------------------------------------------------------------------
(* The order of the stages of AutoEncoder.forward. *)

\* the stages every call runs, and the optional ones after render
Mandatory == SubSeq(Stages, 1, 5)

\* the log runs through Stages in order, no stage twice
InOrder(l) == \A i, j \in 1..Len(l) : i < j => StageIndex(l[i]) < StageIndex(l[j])

\* what the post-render steps that ran make of render's rgb, for batch entry b
PostRgb(b) ==
    LET r0 == loc.render_rgb[b]
        r1 == IF \E i \in 1..Len(log) : log[i] = "cal" THEN Cal(W, r0) ELSE r0
        r2 == IF \E i \in 1..Len(log) : log[i] = "composite"
              THEN Composite(r1, loc.alpha[b],
                             MaskedBg(args.background[b], args.is_fully_lit_frame[b]))
              ELSE r1
    IN  IF \E i \in 1..Len(log) : log[i] = "blur" THEN LearnBlur(W, r2) ELSE r2

\* the values a stage consumes exist when it starts: earlier stages made them
InputsReady ==
    /\ pc = "geomdecoder" => "embs" \in DOMAIN loc
    /\ pc = "decoder" =>
           {"embs", "geom", "headrel_campos", "light_intensity", "headrel_light_pos",
            "headrel_light_sh"} \subseteq DOMAIN loc
    /\ pc = "render" =>
           /\ "headrel_Rt" \in DOMAIN loc
           /\ {"primpos", "primqvec", "primscale", "opacity", "color"} \subseteq DOMAIN preds
    /\ pc \in {"cal", "composite"} => {"rgb", "alpha", "depth"} \subseteq DOMAIN loc
    /\ pc \in {"facew", "blur"} => {"rgb", "alpha", "depth", "geom"} \subseteq DOMAIN preds

\* C1: every call of forward runs headrel, encoder, geomdecoder, decoder and
\* render in this order and each once, the optional calibration, compositing,
\* face-weight and blur steps only after render and in this order, each at most
\* once; a stage finds its inputs made by earlier stages; and the returned
\* preds hold the alpha and depth of render and the rgb of render as the
\* post-render steps that ran changed it.
C1_StageOrder ==
    /\ InOrder(log)
    /\ pc \in {"idle", "done", "error"} \/ (\E i \in 1..Len(Stages) : pc = Stages[i])
    /\ \A i \in 1..Len(Stages) :
           pc = Stages[i] => \A j \in 1..Len(log) : StageIndex(log[j]) < i
    /\ \A i \in 1..Len(Stages) :
           pc = Stages[i] => SubSeq(log, 1, Min2(i - 1, 5)) = SubSeq(Stages, 1, Min2(i - 1, 5))
    /\ pc \in {"done", "error"} => SubSeq(log, 1, 5) = Mandatory
    /\ InputsReady
    /\ pc = "done" =>
           /\ {"rgb", "alpha", "depth"} \subseteq DOMAIN preds
           /\ preds.alpha = loc.alpha
           /\ preds.depth = loc.depth
           /\ preds.alpha = [b \in 1..args.B |-> RenderAlpha(render_gs(ext, b).final_T)]
           /\ preds.rgb = [b \in 1..args.B |-> PostRgb(b)]

\* a call that ran all nine stages has returned
C1_Witness == pc = "done" /\ log = Stages /\ args.B = MaxB

----------------------------------------------------------------------------
(* Head-relative coordinates. *)

\* the point p of the world frame in the frame of head pose [R|t]: (p - t) R
InHeadFrame(p, hp) ==
    [j \in 1..3 |-> (p[1] - hp[1][4]) * hp[1][j] + (p[2] - hp[2][4]) * hp[2][j]
                     + (p[3] - hp[3][4]) * hp[3][j]]

\* Rt @ [head_pose; 0 0 0 1], written out
HeadRelRt(Rt, hp) ==
    [i \in 1..3 |-> [j \in 1..4 |->
        Rt[i][1] * hp[1][j] + Rt[i][2] * hp[2][j] + Rt[i][3] * hp[3][j]
        + (IF j = 4 THEN Rt[i][4] ELSE 0)]]

\* the SH coefficients of the lights seen from the head, per colour channel
LightShOf(lps, lis, hp) ==
    Bind([l \in 1..Len(lps) |-> DirToSh(cfg.n_diff_sh, Normalize(InHeadFrame(lps[l], hp)))],
         LAMBDA sh : [ch \in 1..3 |-> [k \in 1..ShCount(cfg.n_diff_sh) |->
             SumTo([l \in 1..Len(lps) |-> Mul(sh[l][k], lis[l])], Len(lps))]])

\* C2: the head-relative transform runs before any decoding or rendering; the
\* decoder receives the camera position and the light positions expressed in
\* the head frame and the SH coefficients of the head-relative light
\* directions, never the raw campos or light_pos; every call of the splatting
\* primitive receives Rt @ head_pose_4x4, head_pose_4x4 being head_pose with
\* the row [0, 0, 0, 1] appended, never the raw Rt.
C2_HeadRelative ==
    /\ Len(log) > 0 => log[1] = "headrel"
    /\ "head_pose_4x4" \in DOMAIN loc =>
           \A b \in 1..args.B :
               loc.head_pose_4x4[b] = Append(args.head_pose[b], <<0, 0, 0, 1>>)
    /\ "dec_in" \in DOMAIN loc =>
           \A b \in 1..args.B :
               /\ loc.dec_in[b].headrel_campos = InHeadFrame(args.campos[b], args.head_pose[b])
               /\ loc.dec_in[b].headrel_light_pos =
                      [l \in 1..MaxLights |->
                          InHeadFrame(args.light_pos[b][l], args.head_pose[b])]
               /\ loc.dec_in[b].headrel_light_sh = loc.headrel_light_sh[b]
               /\ DOMAIN loc.dec_in[b] \cap {"campos", "light_pos", "Rt", "head_pose"} = {}
    /\ (pc = "render" /\ rs.b = 0) =>
           \A b \in 1..args.B :
               loc.dec_in[b].headrel_light_sh =
                   LightShOf(args.light_pos[b], args.light_intensity[b], args.head_pose[b])
    /\ \A i \in 1..Len(rs.calls) :
           rs.calls[i].Rt = HeadRelRt(args.Rt[rs.calls[i].b], args.head_pose[rs.calls[i].b])

\* the decoder and the splatting primitive have been called for a moved head,
\* where the head-relative quantities differ from the raw ones
C2_Witness ==
    /\ pc = "cal"
    /\ \E i \in 1..Len(rs.calls) :
           /\ rs.calls[i].Rt # args.Rt[rs.calls[i].b]
           /\ loc.dec_in[rs.calls[i].b].headrel_campos # args.campos[rs.calls[i].b]
           /\ loc.dec_in[rs.calls[i].b].headrel_light_pos # args.light_pos[rs.calls[i].b]

----------------------------------------------------------------------------
(* AutoEncoder.render. *)

\* the divisor of the depth normalisation for the opacity a
DepthDivisor(a) == IF a < 5 THEN 5 ELSE IF a > One THEN One ELSE a

\* C3: render calls the splatting primitive once per batch entry, in
\* increasing order of the index, and returns rgb, alpha and depth with B
\* entries each in batch order: rgb as the primitive produced it,
\* alpha = 1 - final_T and depth = raw depth / clamp(alpha, 0.05, 1.0), the
\* divisor lying in [0.05, 1.0] even for a fully transparent pixel.
C3_Render ==
    /\ Len(rs.calls) = rs.b
    /\ \A i \in 1..Len(rs.calls) : rs.calls[i].b = i
    /\ pc # "idle" => rs.b <= args.B
    /\ pc = "render" =>
           /\ Len(rs.rgbs) = rs.b /\ Len(rs.Ts) = rs.b /\ Len(rs.depths) = rs.b
           /\ \A i \in 1..rs.b :
                  /\ rs.rgbs[i] = render_gs(ext, i).render
                  /\ rs.Ts[i] = render_gs(ext, i).final_T
                  /\ rs.depths[i] = render_gs(ext, i).depth
    /\ pc = "cal" =>
           /\ Len(rs.calls) = args.B
           /\ Len(loc.rgb) = args.B /\ Len(loc.alpha) = args.B /\ Len(loc.depth) = args.B
           /\ \A b \in 1..args.B :
                  /\ loc.rgb[b] = render_gs(ext, b).render
                  /\ loc.alpha[b] = One - render_gs(ext, b).final_T
                  /\ DepthDivisor(loc.alpha[b]) >= 5
                  /\ DepthDivisor(loc.alpha[b]) <= One
                  /\ loc.depth[b] =
                         (render_gs(ext, b).depth * One) \div DepthDivisor(loc.alpha[b])

\* render has returned a full batch holding a fully transparent pixel and a
\* pixel whose opacity lies below the clamp
C3_Witness ==
    /\ pc = "cal"
    /\ args.B = MaxB
    /\ \E b \in 1..args.B : loc.alpha[b] = 0
    /\ \E b \in 1..args.B : loc.alpha[b] > 0 /\ loc.alpha[b] < 5 /\ loc.depth[b] > 0

----------------------------------------------------------------------------
(* The specular model of PrimDecoder.forward. *)

\* the mirror direction of the returned Gaussian for the camera of the call
MirrorDir == RefDirs(prim.out.preds.primpos, prim.in.headrel_campos, prim.out.preds.spec_nml)

\* C4: PrimDecoder.forward evaluates exactly one specular model, chosen only
\* by whether preconv_envmap is given: with it, the mirror direction rotated
\* by lightrot is looked up in the environment map and the result is clamped
\* to at most 1.0; without it, evaluate_gaussian is called on light_intensity,
\* headrel_light_pos and n_lights. Either result is multiplied by spec_vis;
\* the returned color is max(diff_color + spec_color, 0) and the returned
\* diff_color and spec_color are the unclamped terms.
C4_Specular ==
    prim.state = "returned" =>
        LET p == prim.out.preds
            calls == prim.out.calls
        IN  /\ Len(calls) = 1
            /\ calls[1].fn \in {"mipmap_grid_sample", "evaluate_gaussian"}
            /\ (calls[1].fn = "mipmap_grid_sample") <=> (prim.in.preconv_envmap # None)
            /\ prim.in.preconv_envmap # None =>
                   /\ calls[1].dirs = [x \in 1..3 |->
                          prim.in.lightrot[x][1] * MirrorDir[1]
                          + prim.in.lightrot[x][2] * MirrorDir[2]
                          + prim.in.lightrot[x][3] * MirrorDir[3]]
                   /\ \A c \in 1..3 :
                          /\ Min2(prim.sample[c], One) <= One
                          /\ p.spec_color[c] = Mul(Min2(prim.sample[c], One), p.spec_vis)
            /\ prim.in.preconv_envmap = None =>
                   /\ calls[1].dirs = MirrorDir
                   /\ calls[1].rough = p.sigma
                   /\ calls[1].light_intensity = prim.in.light_intensity
                   /\ calls[1].light_pos = prim.in.headrel_light_pos
                   /\ calls[1].n_lights = prim.in.n_lights
                   /\ \A c \in 1..3 : p.spec_color[c] = Mul(prim.sample[c], p.spec_vis)
            /\ \A c \in 1..3 :
                   p.color[c] = Max2(p.diff_color[c] + p.spec_color[c], 0)

\* an environment lookup above 1.0 has been clamped under a turned lightrot, and
\* a negative sum of the two terms has been clamped to 0 in the returned color
C4_Witness ==
    /\ prim.state = "returned"
    /\ prim.in.preconv_envmap # None
    /\ prim.in.lightrot = RotOf(HeadPoses[2])
    /\ prim.out.preds.spec_vis > 0
    /\ \E c \in 1..3 : prim.sample[c] > One /\ prim.out.preds.spec_color[c] > 0
    /\ \E c \in 1..3 :
           /\ prim.out.preds.diff_color[c] + prim.out.preds.spec_color[c] < 0
           /\ prim.out.preds.color[c] = 0

----------------------------------------------------------------------------
(* run_test.main. *)

\* event e has happened
Happened(e) == \E i \in 1..Len(drv.events) : drv.events[i] = e

\* event e has happened, and before event f if f has happened
Before(e, f) ==
    \A j \in 1..Len(drv.events) :
        drv.events[j] = f => \E i \in 1..(j - 1) : drv.events[i] = e

\* C5: in run_test.main, test() is invoked only after a checkpoint was loaded
\* into the model: without a 'ckpt' entry main raises ValueError, builds
\* neither the test dataset nor its loader and never calls test() or the
\* model; with it, load_checkpoint runs strictly before test().
C5_CheckpointFirst ==
    /\ Before("load_checkpoint", "test")
    /\ Before("load_checkpoint", "test_dataset")
    /\ Before("load_checkpoint", "test_loader")
    /\ Happened("load_checkpoint") => drv.ckpt /\ W \in CkptWs
    /\ ~drv.ckpt =>
           /\ drv.pc \in {"direct", "start", "ckpt", "ValueError"}
           /\ ~Happened("test") /\ ~Happened("test_dataset") /\ ~Happened("test_loader")
           /\ drv.calls = 0 /\ pc = "idle"
    /\ drv.pc = "ValueError" => ~drv.ckpt /\ ~Happened("load_checkpoint")
    /\ (drv.ckpt /\ drv.pc \in {"testdata", "disable", "test", "testing", "exit"}) =>
           Happened("load_checkpoint")
    /\ drv.pc \in {"testing", "exit"} => Happened("test")
    /\ drv.calls > 0 => Happened("test")
    /\ \A i, j \in 1..Len(drv.events) : i # j => drv.events[i] # drv.events[j]

\* main has raised ValueError for a configuration without a checkpoint
C5_Witness ==
    /\ drv.pc = "ValueError"
    /\ drv.events = <<"train_dataset", "model", "loss_fn", "train_loader">>

\* C6: in a run of run_test.main the model is in eval mode and
\* learn_blur_enabled and cal_enabled are False before test() starts and
\* while it runs, so every forward call of test() skips calibration, blur,
\* compositing and face-weight rasterization, returns preds without
\* image_weight, mesh_nml and learn_blur_weights, and returns as rgb exactly
\* the rgb of render.
C6_TestMode ==
    /\ drv.pc \in {"test", "testing", "exit"} =>
           ~training /\ ~cal_enabled /\ ~learn_blur_enabled
    /\ drv.pc \notin {"start"} => ~training
    /\ pc # "idle" =>
           /\ drv.pc = "testing"
           /\ pc # "error"
           /\ \A i \in 1..Len(log) : log[i] \notin {"cal", "composite", "facew", "blur"}
    /\ pc = "done" =>
           /\ log = Mandatory
           /\ DOMAIN preds \cap {"image_weight", "mesh_nml", "learn_blur_weights"} = {}
           /\ preds.rgb = [b \in 1..args.B |-> render_gs(ext, b).render]
           /\ preds.rgb = loc.render_rgb

\* a forward call of test() has returned for a batch that carries a background,
\* after an earlier call
C6_Witness ==
    /\ drv.pc = "testing"
    /\ pc = "done"
    /\ drv.calls > 1
    /\ args.background # None
    /\ args.B = MaxB

----------------------------------------------------------------------------
(* Background compositing. *)

\* the index of the dataset frame behind batch entry b, read off its intrinsics
FrameOf(b) == args.K[b][1][1] - 500

\* the rgb of batch entry b as it enters the compositing step
PreComposite(b) == IF cal_enabled THEN Cal(W, loc.render_rgb[b]) ELSE loc.render_rgb[b]

\* the preds of an eval-mode call for batch entry b of the arguments a,
\* computed from everything but background and is_fully_lit_frame
EvalEntry(a, b) ==
    Bind(HeadRel(cfg, a.head_pose[b], a.Rt[b], a.campos[b], a.light_pos[b],
                 a.light_intensity[b]), LAMBDA hr :
    Bind(EncoderForward(W, FALSE, a.registration_vertices[b], a.color[b], 0), LAMBDA en :
    Bind(GeomDecoderForward(W, en.embs).face_geom, LAMBDA g :
    Bind(render_gs(ext, b), LAMBDA r :
    Bind(IF cal_enabled THEN Cal(W, r.render) ELSE r.render, LAMBDA rgb :
        Merge(Merge(Merge([geom |-> g, headrel_light_sh |-> hr.headrel_light_sh], en),
                    PrimDecoderForward(cfg, W,
                        [embs |-> en.embs, geom |-> g,
                         headrel_campos |-> hr.headrel_campos,
                         light_intensity |-> hr.light_intensity,
                         headrel_light_pos |-> hr.headrel_light_pos,
                         headrel_light_sh |-> hr.headrel_light_sh,
                         n_lights |-> a.n_lights[b],
                         preconv_envmap |-> None, lightrot |-> None],
                        SpecSample(ext, b)).preds),
              [rgb |-> IF learn_blur_enabled THEN LearnBlur(W, rgb) ELSE rgb,
               alpha |-> One - r.final_T,
               depth |-> (r.depth * One) \div DepthDivisor(One - r.final_T)]))))))

\* the preds of an eval-mode call on the arguments a
EvalPreds(a) ==
    Merge(Batched([b \in 1..a.B |-> EvalEntry(a, b)]),
          IF learn_blur_enabled THEN [learn_blur_weights |-> W] ELSE Empty)

\* C7: forward composites the background only in training mode with a
\* background given; the composited rgb is rgb + (1 - alpha) * bg, bg being
\* the first three channels of the background, zeroed for the samples that
\* are not fully lit; the caller's background is left as passed; and in eval
\* mode the returned preds do not depend on background or is_fully_lit_frame.
C7_Composite ==
    /\ (\E i \in 1..Len(log) : log[i] = "composite") =>
           training /\ args.background # None
    /\ (pc \in {"facew", "blur", "done"} /\ training /\ args.background # None) =>
           \E i \in 1..Len(log) : log[i] = "composite"
    /\ (pc = "facew" /\ training /\ args.background # None) =>
           \A b \in 1..args.B : \A c \in 1..3 :
               preds.rgb[b][c] =
                   PreComposite(b)[c]
                   + ((One - loc.alpha[b])
                      * (IF args.is_fully_lit_frame[b] THEN args.background[b][c] ELSE 0))
                     \div One
    /\ (pc = "facew" /\ ~(training /\ args.background # None)) =>
           \A b \in 1..args.B : preds.rgb[b] = PreComposite(b)
    /\ (pc # "idle" /\ args.background # None) =>
           \A b \in 1..args.B : args.background[b] = Frame(FrameOf(b)).background
    /\ ~training => pc # "error"
    /\ (~training /\ pc = "done") => preds = EvalPreds(args)

\* a training call has composited a batch with a fully lit and an unlit sample
\* over pixels that are not opaque, and the lit sample's rgb took in background
C7_Witness ==
    /\ pc = "facew"
    /\ training
    /\ args.background # None
    /\ \E b1, b2 \in 1..args.B :
           /\ args.is_fully_lit_frame[b1] /\ ~args.is_fully_lit_frame[b2]
           /\ loc.alpha[b1] < One /\ loc.alpha[b2] < One
           /\ preds.rgb[b1] # PreComposite(b1)
           /\ preds.rgb[b2] = PreComposite(b2)
           /\ args.background[b2][1] > 0

----------------------------------------------------------------------------
(* The Encoder. *)

\* C8: Encoder.forward adds noise only in training mode: in eval mode embs
\* equals embs_mu whatever the noise drawn; in training mode
\* embs = embs_mu + exp(embs_logvar) * noise * noise_std; and embs_mu and
\* embs_logvar are functions of the inputs alone, the same in both modes.
C8_EncoderNoise ==
    /\ \A i \in 1..Len(enc) :
           /\ ~enc[i].train => enc[i].out.embs = enc[i].out.embs_mu
           /\ enc[i].train =>
                  enc[i].out.embs =
                      enc[i].out.embs_mu
                      + (((Exp(enc[i].out.embs_logvar) * enc[i].noise) \div One) * noise_std)
                        \div One
    /\ \A i, j \in 1..Len(enc) :
           (enc[i].geom = enc[j].geom /\ enc[i].color = enc[j].color) =>
               /\ enc[i].out.embs_mu = enc[j].out.embs_mu
               /\ enc[i].out.embs_logvar = enc[j].out.embs_logvar
               /\ (~enc[i].train /\ ~enc[j].train) => enc[i].out.embs = enc[j].out.embs

\* the same inputs have been encoded in training mode, where the noise moved
\* embs off embs_mu, and then in eval mode under another noise
C8_Witness ==
    /\ Len(enc) = 2
    /\ enc[1].geom = enc[2].geom /\ enc[1].color = enc[2].color
    /\ enc[1].train /\ ~enc[2].train
    /\ enc[1].noise # enc[2].noise /\ enc[2].noise # 0
    /\ enc[1].out.embs # enc[1].out.embs_mu
    /\ enc[2].out.embs = enc[1].out.embs_mu

----------------------------------------------------------------------------
(* The channels of the view-independent decoder. *)

\* the three slices split the vind_ch channels without gap or overlap, the
\* diffuse slice first with n_diff_coeffs channels, then 11, then 1
ChannelLayout(c) ==
    /\ n_diff_coeffs(c) =
           3 * (c.n_color_sh + 1) * (c.n_color_sh + 1)
           + ((c.n_diff_sh + 1) * (c.n_diff_sh + 1) - (c.n_color_sh + 1) * (c.n_color_sh + 1))
    /\ DiffChannels(c) \cup GeomChannels(c) \cup SigmaChannels(c) = 1..vind_ch(c)
    /\ DiffChannels(c) \cap GeomChannels(c) = {}
    /\ DiffChannels(c) \cap SigmaChannels(c) = {}
    /\ GeomChannels(c) \cap SigmaChannels(c) = {}
    /\ DiffChannels(c) = 1..n_diff_coeffs(c)
    /\ GeomChannels(c) = (n_diff_coeffs(c) + 1)..(n_diff_coeffs(c) + 11)
    /\ Cardinality(SigmaChannels(c)) = 1
    /\ PosSlice \cup QvecSlice \cup ScaleSlice \cup OpacitySlice = 1..11
    /\ Cardinality(PosSlice) = 3 /\ Cardinality(QvecSlice) = 4
    /\ Cardinality(ScaleSlice) = 3 /\ Cardinality(OpacitySlice) = 1

\* the returned parameters are decoded from the channels of their slices
DecodedFromSlices ==
    LET ft == PrimFeatures(cfg, W, prim.in)
        f == ft.f_vnocond
        nd == n_diff_coeffs(cfg)
        ncol == (cfg.n_color_sh + 1) * (cfg.n_color_sh + 1)
        p == prim.out.preds
    IN  /\ Len(f) = vind_ch(cfg)
        /\ \A ch \in 1..3 : \A k \in 1..Len(prim.out.diff_shs[ch]) :
               prim.out.diff_shs[ch][k] =
                   IF k <= ncol THEN f[(ch - 1) * ncol + k] ELSE f[3 * ncol + (k - ncol)]
        /\ \A i \in 1..3 : p.primpos[i] = f[nd + i] + ft.primposbase[i]
        /\ p.primqvec = Normalize4(<<f[nd + 4], f[nd + 5], f[nd + 6], f[nd + 7]>>)
        /\ \A i \in 1..3 : p.primscale[i] = Softplus(f[nd + 7 + i])
        /\ p.opacity = Sigmoid(f[nd + 11])
        /\ p.sigma = Max2((Exp(f[nd + 12]) * 10) \div One, 1)

\* a call has returned diffuse coefficients of the count of headrel_light_sh
CoefficientCount ==
    /\ prim.state = "returned"
    /\ \A ch \in 1..3 :
           /\ Len(prim.out.diff_shs[ch]) = (cfg.n_diff_sh + 1) * (cfg.n_diff_sh + 1)
           /\ Len(prim.out.diff_shs[ch]) = Len(prim.in.headrel_light_sh[ch])
    /\ DecodedFromSlices

\* C9: for every configuration with 0 <= n_color_sh <= n_diff_sh the channels
\* of the view-independent decoder split without gap or overlap into
\* n_diff_coeffs diffuse channels, 11 Gaussian channels (3 position, 4
\* quaternion, 3 scale, 1 opacity) and 1 roughness channel, and a call of
\* forward yields, after the broadcast of the monochrome coefficients,
\* (n_diff_sh + 1)^2 diffuse coefficients per colour channel, as many as
\* headrel_light_sh has.
C9_Channels ==
    /\ cfg.n_color_sh >= 0 /\ cfg.n_color_sh <= cfg.n_diff_sh
    /\ ChannelLayout(cfg)
    /\ prim.state # "none" => CoefficientCount

\* the same where a monochrome coefficient exists: n_color_sh < n_diff_sh
C9_ChannelsWithMono ==
    cfg.n_color_sh < cfg.n_diff_sh => C9_Channels

\* forward has raised for a configuration with n_color_sh = n_diff_sh
C9_Witness ==
    /\ prim.state = "raised"
    /\ cfg.n_color_sh = cfg.n_diff_sh
    /\ cfg.n_diff_sh > 0
    /\ ChannelLayout(cfg)

\* forward has returned for a configuration with colour and monochrome parts
C9_WitnessWithMono ==
    /\ prim.state = "returned"
    /\ cfg.n_color_sh > 0 /\ cfg.n_color_sh < cfg.n_diff_sh
    /\ CoefficientCount

----------------------------------------------------------------------------
(* The ranges of the decoded parameters. *)

\* C10: the parameters PrimDecoder.forward returns lie in their valid ranges
\* whatever the network outputs: opacity and spec_vis in [0, 1], the roughness
\* sigma at least 0.01, every component of primscale at least 0 and every
\* component of color at least 0.
C10_Ranges ==
    prim.state = "returned" =>
        LET p == prim.out.preds
        IN  /\ p.opacity >= 0 /\ p.opacity <= One
            /\ p.spec_vis >= 0 /\ p.spec_vis <= One
            /\ p.sigma >= 1
            /\ \A i \in 1..3 : p.primscale[i] >= 0
            /\ \A c \in 1..3 : p.color[c] >= 0

\* forward has returned where the network's roughness output lay far below the
\* clamp and the sum of the diffuse and specular terms was negative
C10_Witness ==
    /\ prim.state = "returned"
    /\ PrimFeatures(cfg, W, prim.in).f_vnocond[vind_ch(cfg)] <= 0 - 3 * One
    /\ prim.out.preds.sigma = 1
    /\ \E c \in 1..3 : prim.out.preds.diff_color[c] + prim.out.preds.spec_color[c] < 0

----------------------------------------------------------------------------
(* The consistency of the head-relative transform. *)

\* M has orthonormal rows
Orthonormal(M) ==
    \A i, j \in 1..3 :
        M[i][1] * M[j][1] + M[i][2] * M[j][2] + M[i][3] * M[j][3] = (IF i = j THEN 1 ELSE 0)

\* the camera centre of extrinsics [Rc|tc]: -Rc^T tc, written out
CentreOf(M) ==
    [j \in 1..3 |-> 0 - (M[1][j] * M[1][4] + M[2][j] * M[2][4] + M[3][j] * M[3][4])]

\* C11: for a rigid head pose [R|t] and extrinsics [Rc|tc] with
\* campos = -Rc^T tc, the camera centre of headrel_Rt = Rt @ head_pose_4x4 is
\* headrel_campos = R^T (campos - t); and under the identity head pose
\* headrel_Rt = Rt, headrel_campos = campos and headrel_light_pos = light_pos.
C11_HeadRelConsistent ==
    prim.state = "headrel" =>
        LET hp == prim.in.head_pose
            o == prim.out
        IN  /\ (Orthonormal(hp) /\ Orthonormal(prim.in.Rt)
                /\ prim.in.campos = CentreOf(prim.in.Rt)) =>
                   /\ o.headrel_campos =
                          [j \in 1..3 |->
                              hp[1][j] * (prim.in.campos[1] - hp[1][4])
                              + hp[2][j] * (prim.in.campos[2] - hp[2][4])
                              + hp[3][j] * (prim.in.campos[3] - hp[3][4])]
                   /\ CentreOf(o.headrel_Rt) = o.headrel_campos
            /\ hp = << <<1, 0, 0, 0>>, <<0, 1, 0, 0>>, <<0, 0, 1, 0>> >> =>
                   /\ o.headrel_Rt = prim.in.Rt
                   /\ o.headrel_campos = prim.in.campos
                   /\ o.headrel_light_pos = prim.in.light_pos

\* the transform has run for a turned and shifted head whose rotation is not
\* symmetric, under turned extrinsics
C11_Witness ==
    /\ prim.state = "headrel"
    /\ Orthonormal(prim.in.head_pose) /\ Orthonormal(prim.in.Rt)
    /\ prim.in.head_pose[1][2] # prim.in.head_pose[2][1]
    /\ prim.in.head_pose[1][4] # 0
    /\ prim.in.Rt[1][1] # 1
    /\ prim.out.headrel_campos # prim.in.campos
    /\ CentreOf(prim.out.headrel_Rt) = prim.out.headrel_campos

\* the transform has run under the identity head pose
C11_WitnessIdentity ==
    /\ prim.state = "headrel"
    /\ prim.in.head_pose = << <<1, 0, 0, 0>>, <<0, 1, 0, 0>>, <<0, 0, 1, 0>> >>
    /\ prim.in.Rt[1][4] # 0

----------------------------------------------------------------------------
(* Training calls with the optional arguments left at None. *)

\* the running call is a training call with background and
\* is_fully_lit_frame at their default None
TrainingDefaults ==
    /\ pc # "idle"
    /\ training
    /\ args.background = None
    /\ args.is_fully_lit_frame = None

\* C12: forward in training mode, called with background = None and
\* is_fully_lit_frame = None, skips background compositing, raises no error
\* and returns preds that contain rgb, alpha, depth, image_weight and mesh_nml.
C12_TrainingDefaults ==
    TrainingDefaults =>
        /\ pc # "error"
        /\ \A i \in 1..Len(log) : log[i] # "composite"
        /\ pc = "done" =>
               {"rgb", "alpha", "depth", "image_weight", "mesh_nml"} \subseteq DOMAIN preds

\* such a call has skipped compositing and then raised in the face-weight
\* rasterization, which subscripts background
C12_Witness ==
    /\ TrainingDefaults
    /\ pc = "error"
    /\ log[Len(log)] = "facew"
    /\ \A i \in 1..Len(log) : log[i] # "composite"
    /\ {"rgb", "alpha", "depth"} \subseteq DOMAIN preds
    /\ DOMAIN preds \cap {"image_weight", "mesh_nml"} = {}

----------------------------------------------------------------------------
(* The lights of the diffuse and the specular term. *)

\* what light slot l of batch entry b adds to colour channel ch of the SH
\* coefficients: SH(head-relative light direction) * intensity
SlotSh(b, l) ==
    Bind(DirToSh(cfg.n_diff_sh,
                 Normalize(InHeadFrame(args.light_pos[b][l], args.head_pose[b]))),
         LAMBDA sh : [k \in 1..ShCount(cfg.n_diff_sh) |->
                         Mul(sh[k], args.light_intensity[b][l])])

\* the sum of the first n light slots of batch entry b
ShOfFirst(b, n) ==
    Bind([l \in 1..n |-> SlotSh(b, l)], LAMBDA sl :
        [ch \in 1..3 |-> [k \in 1..ShCount(cfg.n_diff_sh) |->
            SumTo([l \in 1..n |-> sl[l][k]], n)]])

\* headrel_light_sh is the sum of its slots, a dark slot adding zero
Additive ==
    pc = "encoder" =>
        \A b \in 1..args.B :
            /\ loc.headrel_light_sh[b] = ShOfFirst(b, Len(args.light_pos[b]))
            /\ \A l \in 1..Len(args.light_pos[b]) :
                   args.light_intensity[b][l] = 0 =>
                       \A k \in 1..ShCount(cfg.n_diff_sh) : SlotSh(b, l)[k] = 0

\* the specular primitive is given n_lights, the count of lights it evaluates
SpecularCounts ==
    (pc = "render" /\ rs.b = 0) =>
        \A b \in 1..args.B : loc.dec_calls[b][1].n_lights = args.n_lights[b]

\* C13: diffuse and specular lighting use the same lights: for each sample b
\* a light slot of index >= n_lights[b] adds nothing to headrel_light_sh, as
\* it adds nothing to the specular term, which is evaluated over the first
\* n_lights[b] lights; headrel_light_sh is additive over the light slots, a
\* slot of zero intensity adding zero.
C13_SameLights ==
    /\ Additive
    /\ SpecularCounts
    /\ pc = "encoder" =>
           \A b \in 1..args.B : loc.headrel_light_sh[b] = ShOfFirst(b, args.n_lights[b])

\* the additivity and the specular count alone
C13_AdditiveOnly == Additive /\ SpecularCounts

\* a sample with no light on (n_lights = 0) whose slots carry intensity has
\* got non-zero diffuse SH coefficients
C13_Witness ==
    /\ pc = "encoder"
    /\ \E b \in 1..args.B :
           /\ args.n_lights[b] = 0
           /\ \E l \in 1..MaxLights : args.light_intensity[b][l] > 0
           /\ \E k \in 1..ShCount(cfg.n_diff_sh) : loc.headrel_light_sh[b][1][k] # 0

\* a sample whose slots beyond n_lights are dark: there the two terms agree
C13_WitnessPadded ==
    /\ pc = "encoder"
    /\ \E b \in 1..args.B :
           /\ args.n_lights[b] > 0 /\ args.n_lights[b] < MaxLights
           /\ \A l \in (args.n_lights[b] + 1)..MaxLights : args.light_intensity[b][l] = 0
           /\ loc.headrel_light_sh[b] = ShOfFirst(b, args.n_lights[b])

----------------------------------------------------------------------------
(* The image weight. *)

\* the pixel lies under the dilated mask of the bright background
Covered == \E k \in 1..Len(prim.in.background) :
               prim.in.background[k][1] + prim.in.background[k][2]
                   + prim.in.background[k][3] > 150

C14_WitnessDilated ==
    /\ prim.state = "facew"
    /\ prim.in.render.mask = One /\ prim.in.render.fw = One
    /\ prim.out.mesh_nml[3] < 0
    /\ prim.in.background[1] = <<50, 50, 50>>
    /\ prim.in.background[2] = <<51, 50, 50>>
    /\ prim.out.weight = 0

\* a pixel whose normal faces the camera only after the extrinsics' rotation
C14_WitnessBackfacing ==
    /\ prim.state = "facew"
    /\ prim.in.render.nml[3] < 0
    /\ prim.out.mesh_nml[3] > 0
    /\ ~Covered
    /\ prim.in.render.fw = One
    /\ prim.out.weight = 0

====
